---- MODULE Spec2Model ----
(***************************************************************************)
(* JsonStore (expressjs-otel/src/storage/jsonStore.ts): an in-memory Map   *)
(* of users backed by one JSON file, with a promise chain (writeQueue)     *)
(* that serialises the file writes; the user API handlers around it        *)
(* (HandlerSpec); and the create entry points of the posts API of          *)
(* nextjs-sentry (PostSpec).                                               *)
(*                                                                         *)
(* One step of the model is one turn of the Node.js event loop: a call of  *)
(* a store method up to its first await, or the completion of one file     *)
(* system operation, each followed by every promise reaction (microtask)   *)
(* that the turn makes runnable.                                           *)
(***************************************************************************)
EXTENDS Integers, Sequences, FiniteSets, TLC

\* ---------------------------------------------------------------- bounds
MaxCalls == 3      \* create/update/delete calls over the whole run

\* the values the callers pass: ids (uuids), emails, names, timestamps
Ids == {"u1", "u2"}
Emails == {"ann@x.com", "bob@x.com"}
Names == {"Ann", "Ann2"}
Stamps == {"2026-01-01T00:00:00.000Z"}

\* ------------------------------------------------------------ the record
\* type User = { id, name, email, created_at, updated_at }
User == [id : Ids, name : Names, email : Emails,
         created_at : Stamps, updated_at : Stamps]

VARIABLES
    phase,      \* "constructed" | "ready" | "failed": where init() stands
    users,      \* state.users: the Map, as the sequence of its values in insertion order
    writeQueue, \* state.writeQueue: the chain of promises, oldest first; its last
                \* element is the promise the field holds (none: Promise.resolve())
    file,       \* the content of state.filePath on disk
    calls,      \* the create/update/delete calls of this store instance, in call order:
                \* op, id and argument, the queue promise awaited (link, 0: none)
                \* and what the call returned
    ncalls,     \* number of create/update/delete calls made over the whole run
    lastRead    \* what the latest getAll or getById returned, if one was called
                \* since the latest create/update/delete call

vars == <<phase, users, writeQueue, file, calls, ncalls, lastRead>>

\* The user API around the store (handlers/users.ts, index.ts)
VARIABLES
    clock,       \* the clock of the process, in milliseconds: an index into Times
    nuuid,       \* how many ids uuidv4() has handed out
    userCounter, \* metrics.userCounter: the sum of what was added to it
    reqs         \* the create/update/remove requests of this process, in arrival
                 \* order: the handler's locals and the responses it has sent

hvars == <<clock, nuuid, userCounter, reqs>>

\* The posts API (nextjs-sentry: app/api/posts/route.ts, routers/post.ts)
VARIABLES
    posts,       \* the rows of the Post table, by their name, in insertion order
    preq         \* the create requests: where each handler stands and its answer

pvars == <<posts, preq>>

\* the requests (concurrent callers) and what they carry
PostReqs == {"p1", "p2", "p3"}
PostNames == {"hello", "world"}
PostVias == {"rest", "trpc"}

\* a create request that has not arrived
PostIdle == [pc |-> "idle"]

allvars == <<vars, hvars, pvars>>

\* --------------------------------------------------------------- the Map
\* Map.prototype.has
MapHas(us, id) == \E i \in DOMAIN us : us[i].id = id

\* (mutant) the Map is keyed by the email, not by the id
MapSetByEmail(us, user) ==
    IF \E i \in DOMAIN us : us[i].email = user.email
    THEN [i \in DOMAIN us |-> IF us[i].email = user.email THEN user ELSE us[i]]
    ELSE Append(us, user)

\* Map.prototype.set: a present key keeps its place, a new key goes last
MapSet(us, user) ==
    IF MapHas(us, user.id)
    THEN [i \in DOMAIN us |-> IF us[i].id = user.id THEN user ELSE us[i]]
    ELSE Append(us, user)

\* Map.prototype.delete
MapDelete(us, id) ==
    LET Keep(u) == u.id # id IN SelectSeq(us, Keep)

\* new Map(users.map((user) => [user.id, user]))
RECURSIVE MapFromUsers(_)
MapFromUsers(list) ==
    IF list = <<>> THEN <<>>
    ELSE MapSet(MapFromUsers(SubSeq(list, 1, Len(list) - 1)), list[Len(list)])

\* ------------------------------------------------------------- the file
\* JSON.stringify(users, null, 2): one object per user, its members in the
\* order of the User type
StringifyUser(u) ==
    <<"id", u.id, "name", u.name, "email", u.email,
      "created_at", u.created_at, "updated_at", u.updated_at>>

Stringify(us) == [i \in DOMAIN us |-> StringifyUser(us[i])]

\* JSON.parse of one object
ParseUser(o) ==
    [id |-> o[2], name |-> o[4], email |-> o[6],
     created_at |-> o[8], updated_at |-> o[10]]

\* JSON.parse(data) as User[]
Parse(text) == [i \in DOMAIN text |-> ParseUser(text[i])]

\* The file: absent (ENOENT), zero-length, a cut-off JSON text, or a whole one.
NoFile == [kind |-> "absent", text |-> <<>>]
EmptyFile == [kind |-> "empty", text |-> <<>>]
PartialFile == [kind |-> "partial", text |-> <<>>]
JsonFile(text) == [kind |-> "json", text |-> text]

\* ------------------------------------------------------------ the chain
\* Promise.resolve(): the writeQueue of the constructor
Resolved == [st |-> "fulfilled", data |-> <<>>, ran |-> FALSE, cause |-> 0]

\* a promise made by writeQueue.then(action), its action not yet called
Pending == [st |-> "pending", data |-> <<>>, ran |-> FALSE, cause |-> 0]

\* (mutant) persist writes the newest record only, not the whole collection
PersistNewest(us) ==
    [st |-> "opening", ran |-> TRUE, cause |-> 0,
     data |-> Stringify(IF us = <<>> THEN <<>> ELSE <<us[Len(us)]>>)]

\* persist() up to its await: the snapshot of the Map, serialised, and the
\* call of fs.writeFile
Persist(us) == [st |-> "opening", data |-> Stringify(us), ran |-> TRUE, cause |-> 0]

\* (mutant) the action is called at once, not chained on the queue
ThenEager(prev, p, us) ==
    IF p.st = "pending" THEN Persist(us) ELSE p

\* (mutant) a rejected predecessor is swallowed: p fulfils, its action not called
ThenSwallow(prev, p, us) ==
    IF p.st # "pending" THEN p
    ELSE IF prev.st = "fulfilled" THEN Persist(us)
    ELSE IF prev.st = "rejected" THEN [p EXCEPT !.st = "fulfilled"]
    ELSE p

\* (mutant) a rejected predecessor leaves p pending for ever
ThenStuck(prev, p, us) ==
    IF p.st # "pending" THEN p
    ELSE IF prev.st = "fulfilled" THEN Persist(us)
    ELSE p

\* The reaction of prev.then(action) on the promise p it returned: a fulfilled
\* prev calls the action, a rejected prev rejects p with prev's error and the
\* action is never called.
Then(prev, p, us) ==
    IF p.st # "pending" THEN p
    ELSE IF prev.st = "fulfilled" THEN Persist(us)
    ELSE IF prev.st = "rejected" THEN [p EXCEPT !.st = "rejected", !.cause = prev.cause]
    ELSE p

\* (mutant) each action is chained on a stale writeQueue, one promise too old
RunReactionsStale(q, us) ==
    LET f[i \in 0..Len(q)] ==
            IF i = 0 THEN Resolved
            ELSE Then(IF i = 1 THEN Resolved ELSE f[i - 2], q[i], us)
    IN [i \in 1..Len(q) |-> f[i]]

\* Every reaction of the chain that can run, oldest promise first.
RunReactions(q, us) ==
    LET f[i \in 0..Len(q)] ==
            IF i = 0 THEN Resolved ELSE Then(f[i - 1], q[i], us)
    IN [i \in 1..Len(q) |-> f[i]]

\* enqueueWrite: writeQueue = writeQueue.then(action); return writeQueue
EnqueueWrite(q) == Append(q, Pending)

\* (mutant) the rejection of the awaited promise is swallowed
ResumeSwallow(cs, q) ==
    [i \in DOMAIN cs |->
        IF cs[i].outcome = "pending" /\ Len(q) >= cs[i].link /\ q[cs[i].link].st \in {"fulfilled", "rejected"}
        THEN [cs[i] EXCEPT !.outcome = "ok"]
        ELSE cs[i]]

\* (mutant) the call resumes once the write has begun, not once it has ended
ResumeEarly(cs, q) ==
    [i \in DOMAIN cs |->
        IF cs[i].outcome = "pending" /\ q[cs[i].link].st \in {"writing", "fulfilled"}
        THEN [cs[i] EXCEPT !.outcome = "ok"]
        ELSE IF cs[i].outcome = "pending" /\ q[cs[i].link].st = "rejected"
        THEN [cs[i] EXCEPT !.outcome = "WriteError"]
        ELSE cs[i]]

\* The continuation of `await this.enqueueWrite(...)` in create, update and delete
Resume(cs, q) ==
    [i \in DOMAIN cs |->
        IF cs[i].outcome = "pending" /\ q[cs[i].link].st = "fulfilled"
        THEN [cs[i] EXCEPT !.outcome = "ok"]
        ELSE IF cs[i].outcome = "pending" /\ q[cs[i].link].st = "rejected"
        THEN [cs[i] EXCEPT !.outcome = "WriteError"]
        ELSE cs[i]]

\* ----------------------------------------------------------- operations
\* getAll
GetAll(us) == us

\* getById: the user, or UserNotFoundError
GetById(us, id) ==
    IF MapHas(us, id)
    THEN [err |-> "none", user |-> (CHOOSE u \in {us[i] : i \in DOMAIN us} : u.id = id)]
    ELSE [err |-> "UserNotFoundError"]

\* (mutant) create without the duplicate-email scan
StoreCreateNoScan(us, user) == [err |-> "none", users |-> MapSet(us, user)]

\* (mutant) create enqueues the persist without the insert before it
StoreCreateNoInsert(us, user) ==
    IF \E i \in DOMAIN us : us[i].email = user.email
    THEN [err |-> "UserExistsError", users |-> us]
    ELSE [err |-> "none", users |-> us]

\* create up to its await: the duplicate-email scan, then the insert
StoreCreate(us, user) ==
    IF \E i \in DOMAIN us : us[i].email = user.email
    THEN [err |-> "UserExistsError", users |-> us]
    ELSE [err |-> "none", users |-> MapSet(us, user)]

\* (mutant) update without the scan for another record's email
StoreUpdateNoScan(us, user) ==
    IF ~MapHas(us, user.id)
    THEN [err |-> "UserNotFoundError", users |-> us]
    ELSE [err |-> "none", users |-> MapSet(us, user)]

\* (mutant) the scan does not skip the record's own id
StoreUpdateScanSelf(us, user) ==
    IF ~MapHas(us, user.id)
    THEN [err |-> "UserNotFoundError", users |-> us]
    ELSE IF \E i \in DOMAIN us : us[i].email = user.email
    THEN [err |-> "UserExistsError", users |-> us]
    ELSE [err |-> "none", users |-> MapSet(us, user)]

\* update up to its await
StoreUpdate(us, user) ==
    IF ~MapHas(us, user.id)
    THEN [err |-> "UserNotFoundError", users |-> us]
    ELSE IF \E i \in DOMAIN us : us[i].email = user.email /\ us[i].id # user.id
    THEN [err |-> "UserExistsError", users |-> us]
    ELSE [err |-> "none", users |-> MapSet(us, user)]

\* (mutant) delete without the check that the id is present
StoreDeleteNoCheck(us, id) == [err |-> "none", users |-> MapDelete(us, id)]

\* (mutant) delete leaves the record in the Map until the persist is over
StoreDeleteLazy(us, id) ==
    IF ~MapHas(us, id)
    THEN [err |-> "UserNotFoundError", users |-> us]
    ELSE [err |-> "none", users |-> us]

\* delete up to its await
StoreDelete(us, id) ==
    IF ~MapHas(us, id)
    THEN [err |-> "UserNotFoundError", users |-> us]
    ELSE [err |-> "none", users |-> MapDelete(us, id)]

\* no getAll or getById was called yet
NoRead == [op |-> "none"]

\* A call of create, update or delete with the result r of its synchronous
\* part: a thrown error returns at once, otherwise the Map is changed, the
\* persist is enqueued and the call awaits it.
Mutate(op, id, user, r) ==
    /\ phase = "ready"
    /\ ncalls < MaxCalls
    /\ ncalls' = ncalls + 1
    /\ UNCHANGED <<phase, file>>
    /\ lastRead' = NoRead
    /\ IF r.err # "none"
       THEN /\ calls' = Append(calls, [op |-> op, id |-> id, user |-> user,
                                        outcome |-> r.err, link |-> 0])
            /\ UNCHANGED <<users, writeQueue>>
       ELSE LET q == RunReactions(EnqueueWrite(writeQueue), r.users)
            IN /\ users' = r.users
               /\ writeQueue' = q
               /\ calls' = Resume(Append(calls, [op |-> op, id |-> id, user |-> user,
                                                  outcome |-> "pending", link |-> Len(q)]), q)

Create(user) == Mutate("create", user.id, <<user>>, StoreCreate(users, user))

Update(user) == Mutate("update", user.id, <<user>>, StoreUpdate(users, user))

Delete(id) == Mutate("delete", id, <<>>, StoreDelete(users, id))

\* (mutant) load without the ENOENT case: a missing file makes it throw
LoadNoEnoent(f, us) ==
    IF f.kind = "empty" THEN [err |-> "none", users |-> us]
    ELSE IF f.kind = "json" THEN [err |-> "none", users |-> MapFromUsers(Parse(f.text))]
    ELSE [err |-> "Error", users |-> us]

\* load of a file that can be read: ENOENT and a zero-length file (!data)
\* leave the Map as it is, a text JSON.parse rejects makes it throw.
Load(f, us) ==
    IF f.kind \in {"absent", "empty"} THEN [err |-> "none", users |-> us]
    ELSE IF f.kind = "json" THEN [err |-> "none", users |-> MapFromUsers(Parse(f.text))]
    ELSE [err |-> "SyntaxError", users |-> us]

\* init: mkdir, then load; a read error other than ENOENT makes init throw too.
\* main awaits init before app.listen, and exits with code 1 when it throws.
StoreInit ==
    /\ phase = "constructed"
    /\ UNCHANGED <<writeQueue, file, calls, ncalls, lastRead>>
    /\ \/ /\ Load(file, users).err = "none"
          /\ phase' = "ready"
          /\ users' = Load(file, users).users
       \/ /\ Load(file, users).err # "none"
          /\ phase' = "failed"
          /\ UNCHANGED users
       \/ /\ file.kind # "absent"
          /\ phase' = "failed"
          /\ UNCHANGED users

\* where each promise of the chain stands
QueueStates(q) == [k \in DOMAIN q |-> q[k].st]

\* What the caller of getAll holds: the result, and with it what the first
\* getAll since the latest create/update/delete call returned and whether a
\* persist has started or ended between that one and this one.
GetAllRead(result, last, q) ==
    IF last.op = "getAll"
    THEN [op |-> "getAll", result |-> result, first |-> last.first,
          moved |-> last.moved \/ last.first.queue # QueueStates(q)]
    ELSE [op |-> "getAll", result |-> result, moved |-> FALSE,
          first |-> [result |-> result, queue |-> QueueStates(q)]]

\* (mutant) getAll waits for the write queue to drain before it reads
ReadGetAllDrained ==
    /\ phase = "ready"
    /\ \A k \in DOMAIN writeQueue : writeQueue[k].st \in {"fulfilled", "rejected"}
    /\ lastRead' = GetAllRead(GetAll(users), lastRead, writeQueue)
    /\ UNCHANGED <<phase, users, writeQueue, file, calls, ncalls>>

\* (mutant) getAll reads the records back from the file
ReadGetAllFromFile ==
    /\ phase = "ready"
    /\ lastRead' = GetAllRead(IF file.kind = "json" THEN Parse(file.text) ELSE <<>>,
                              lastRead, writeQueue)
    /\ UNCHANGED <<phase, users, writeQueue, file, calls, ncalls>>

\* (mutant) the server listens before init has completed
ReadGetByIdAnyPhase(id) ==
    /\ lastRead' = [op |-> "getById", id |-> id, result |-> GetById(users, id)]
    /\ UNCHANGED <<phase, users, writeQueue, file, calls, ncalls>>

\* a call of getAll (the server is listening): it returns in the same turn
ReadGetAll ==
    /\ phase = "ready"
    /\ lastRead' = GetAllRead(GetAll(users), lastRead, writeQueue)
    /\ UNCHANGED <<phase, users, writeQueue, file, calls, ncalls>>

\* a call of getById (the server is listening): it returns or throws in the same turn
ReadGetById(id) ==
    /\ phase = "ready"
    /\ lastRead' = [op |-> "getById", id |-> id, result |-> GetById(users, id)]
    /\ UNCHANGED <<phase, users, writeQueue, file, calls, ncalls>>

\* A settled file operation of the persist in flight: the queue entry k
\* changes, then the reactions run and the awaiting calls resume.
Settle(k, link) ==
    LET q == RunReactions([writeQueue EXCEPT ![k] = link], users)
    IN /\ writeQueue' = q
       /\ calls' = Resume(calls, q)
       /\ UNCHANGED <<phase, users, ncalls, lastRead>>

\* fs.writeFile opened the file for writing: the file is truncated
WriteOpen(k) ==
    /\ writeQueue[k].st = "opening"
    /\ file' = EmptyFile
    /\ Settle(k, [writeQueue[k] EXCEPT !.st = "writing"])

\* fs.writeFile wrote the data and closed the file: persist returns
WriteDone(k) ==
    /\ writeQueue[k].st = "writing"
    /\ file' = JsonFile(writeQueue[k].data)
    /\ Settle(k, [writeQueue[k] EXCEPT !.st = "fulfilled", !.data = <<>>])

\* fs.writeFile failed, at the open (the file is as it was) or at the write
\* (the file is empty or holds a part of the data): persist rethrows
WriteFail(k) ==
    /\ \/ /\ writeQueue[k].st = "opening"
          /\ file' = file
       \/ /\ writeQueue[k].st = "writing"
          /\ file' \in {EmptyFile, PartialFile}
    /\ Settle(k, [writeQueue[k] EXCEPT !.st = "rejected", !.data = <<>>, !.cause = k])

\* The process ends (whatever is in flight is lost) and a new one constructs
\* a JsonStore on the same file.
Restart ==
    /\ phase # "constructed"
    /\ phase' = "constructed"
    /\ users' = <<>>
    /\ writeQueue' = <<>>
    /\ calls' = <<>>
    /\ lastRead' = NoRead
    /\ UNCHANGED <<file, ncalls>>

Init ==
    /\ phase = "constructed"
    /\ users = <<>>
    /\ writeQueue = <<>>
    /\ file = NoFile
    /\ calls = <<>>
    /\ ncalls = 0
    /\ lastRead = NoRead
    /\ clock = 1
    /\ nuuid = 0
    /\ userCounter = 0
    /\ reqs = <<>>
    /\ posts = <<>>
    /\ preq = [r \in PostReqs |-> PostIdle]

Next ==
    \/ StoreInit /\ UNCHANGED <<hvars, pvars>>
    \/ \E user \in User : Create(user) /\ UNCHANGED <<hvars, pvars>>
    \/ \E user \in User : Update(user) /\ UNCHANGED <<hvars, pvars>>
    \/ \E id \in Ids : Delete(id) /\ UNCHANGED <<hvars, pvars>>
    \/ \E k \in DOMAIN writeQueue : WriteOpen(k) /\ UNCHANGED <<hvars, pvars>>
    \/ \E k \in DOMAIN writeQueue : WriteDone(k) /\ UNCHANGED <<hvars, pvars>>
    \/ \E k \in DOMAIN writeQueue : WriteFail(k) /\ UNCHANGED <<hvars, pvars>>
    \/ Restart /\ UNCHANGED <<hvars, pvars>>

\* the store alone: the APIs are not running
Spec == Init /\ [][Next]_allvars

\* The store in a process that keeps running, where every file operation
\* that was started settles in the end.
NextLive ==
    \/ StoreInit /\ UNCHANGED <<hvars, pvars>>
    \/ \E user \in User : Create(user) /\ UNCHANGED <<hvars, pvars>>
    \/ \E user \in User : Update(user) /\ UNCHANGED <<hvars, pvars>>
    \/ \E id \in Ids : Delete(id) /\ UNCHANGED <<hvars, pvars>>
    \/ \E k \in DOMAIN writeQueue : WriteOpen(k) /\ UNCHANGED <<hvars, pvars>>
    \/ \E k \in DOMAIN writeQueue : WriteDone(k) /\ UNCHANGED <<hvars, pvars>>
    \/ \E k \in DOMAIN writeQueue : WriteFail(k) /\ UNCHANGED <<hvars, pvars>>

FileOperationSettles ==
    \E k \in DOMAIN writeQueue :
        (WriteOpen(k) \/ WriteDone(k) \/ WriteFail(k)) /\ UNCHANGED <<hvars, pvars>>

LiveSpec == Init /\ [][NextLive]_allvars /\ WF_allvars(FileOperationSettles)

\* the store with its readers
NextRead ==
    \/ Next
    \/ ReadGetAll /\ UNCHANGED <<hvars, pvars>>
    \/ \E id \in Ids : ReadGetById(id) /\ UNCHANGED <<hvars, pvars>>

ReadSpec == Init /\ [][NextRead]_allvars

\* ------------------------------------------------- the user API handlers
\* the ids uuidv4() returns, in the order it returns them: never one twice
Uuids == <<"u1", "u2", "u3">>

\* the instants of the clock as new Date().toISOString() prints them, one
\* per millisecond
Times == <<"2026-01-01T00:00:00.000Z", "2026-01-01T00:00:00.001Z",
           "2026-01-01T00:00:00.002Z", "2026-01-01T00:00:00.003Z">>

\* new Date().toISOString() at the instant t
ToISOString(t) == Times[t]

\* Date.parse of a printed instant
DateParse(stamp) == CHOOSE t \in DOMAIN Times : Times[t] = stamp

\* what a handler reads from the clock: the instant the previous request read
\* or the next one
ClockReads == {t \in {clock, clock + 1} : t <= Len(Times)}

\* (mutant) the id is taken from a fixed value, not from uuidv4()
NewUserFixedId(n, name, email, t) ==
    [id |-> Uuids[1], name |-> name, email |-> email,
     created_at |-> ToISOString(t), updated_at |-> ToISOString(t)]

\* handlers.create: the user object built from the request body
NewUser(n, name, email, t) ==
    [id |-> Uuids[n + 1], name |-> name, email |-> email,
     created_at |-> ToISOString(t), updated_at |-> ToISOString(t)]

\* (mutant) the update stamps created_at too
ChangedUserRestamp(existing, id, name, email, t) ==
    [id |-> id, name |-> name, email |-> email,
     created_at |-> ToISOString(t), updated_at |-> ToISOString(t)]

\* handlers.update: the user object built from the request and existingUser
ChangedUser(existing, id, name, email, t) ==
    [id |-> id, name |-> name, email |-> email,
     created_at |-> existing.created_at, updated_at |-> ToISOString(t)]

\* (mutant) the handler answers with the success status whatever the store threw
StatusOfAlwaysOk(op, outcome) ==
    IF op = "create" THEN 201 ELSE IF op = "update" THEN 200 ELSE 204

\* The status each handler sends for what the awaited store call returned or threw
StatusOf(op, outcome) ==
    IF outcome = "ok"
    THEN (IF op = "create" THEN 201 ELSE IF op = "update" THEN 200 ELSE 204)
    ELSE IF outcome = "UserNotFoundError" /\ op \in {"update", "remove"} THEN 404
    ELSE IF outcome = "UserExistsError" /\ op \in {"create", "update"} THEN 409
    ELSE 500

\* request r's store call has returned or thrown in this turn
Resumed(r, old, new) ==
    /\ r.call # 0
    /\ new[r.call].outcome # "pending"
    /\ (r.call \in DOMAIN old => old[r.call].outcome = "pending")

\* The continuation of each handler after its await: the response is sent
Respond(rs, old, new) ==
    [i \in DOMAIN rs |->
        IF Resumed(rs[i], old, new)
        THEN [rs[i] EXCEPT !.sent = Append(@, StatusOf(rs[i].op, new[rs[i].call].outcome))]
        ELSE rs[i]]

\* ... and before it, metrics.userCounter.add(1) in create and add(-1) in remove
CounterAdds(rs, old, new) ==
    Cardinality({i \in DOMAIN rs : /\ Resumed(rs[i], old, new)
                                    /\ rs[i].op = "create"
                                    /\ new[rs[i].call].outcome = "ok"})
    - Cardinality({i \in DOMAIN rs : /\ Resumed(rs[i], old, new)
                                      /\ rs[i].op = "remove"
                                      /\ new[rs[i].call].outcome = "ok"})

\* a request whose handler called the store: its record, then what the turn
\* lets the handlers do
Handled(op, existing) ==
    LET rs == Append(reqs, [op |-> op, call |-> Len(calls'), existing |-> existing, sent |-> <<>>])
    IN /\ reqs' = Respond(rs, calls, calls')
       /\ userCounter' = userCounter + CounterAdds(rs, calls, calls')

\* a request answered 404 after store.getById threw: the store is not called
NotFound(op) ==
    /\ phase = "ready"
    /\ ncalls < MaxCalls
    /\ ncalls' = ncalls + 1
    /\ reqs' = Append(reqs, [op |-> op, call |-> 0, existing |-> <<>>, sent |-> <<404>>])
    /\ UNCHANGED <<phase, users, writeQueue, file, calls, lastRead, clock, nuuid, userCounter>>

\* POST /users with a valid body
HandleCreate(name, email) ==
    /\ nuuid < Len(Uuids)
    /\ \E t \in ClockReads :
          /\ clock' = t
          /\ Create(NewUser(nuuid, name, email, t))
    /\ nuuid' = nuuid + 1
    /\ Handled("create", <<>>)

\* PUT /users/:id with a valid body
HandleUpdate(id, name, email) ==
    IF GetById(users, id).err # "none"
    THEN NotFound("update")
    ELSE /\ \E t \in ClockReads :
               /\ clock' = t
               /\ Update(ChangedUser(GetById(users, id).user, id, name, email, t))
         /\ UNCHANGED nuuid
         /\ Handled("update", <<GetById(users, id).user>>)

\* DELETE /users/:id
HandleRemove(id) ==
    IF GetById(users, id).err # "none"
    THEN NotFound("remove")
    ELSE /\ Delete(id)
         /\ UNCHANGED <<clock, nuuid>>
         /\ Handled("remove", <<>>)

\* main: init, then the counter starts at the number of users loaded
HandlerStart ==
    /\ StoreInit
    /\ userCounter' = IF phase' = "ready" THEN Len(GetAll(users')) ELSE userCounter
    /\ UNCHANGED <<clock, nuuid, reqs>>

\* a file operation settles: the handlers whose store call returns go on
HandlerWrite(k) ==
    /\ WriteOpen(k) \/ WriteDone(k) \/ WriteFail(k)
    /\ reqs' = Respond(reqs, calls, calls')
    /\ userCounter' = userCounter + CounterAdds(reqs, calls, calls')
    /\ UNCHANGED <<clock, nuuid>>

\* the process ends and a new one starts: its counter is a new one
HandlerRestart ==
    /\ Restart
    /\ reqs' = <<>>
    /\ userCounter' = 0
    /\ UNCHANGED <<clock, nuuid>>

NextHandler ==
    \/ HandlerStart /\ UNCHANGED pvars
    \/ \E name \in Names, email \in Emails :
          HandleCreate(name, email) /\ UNCHANGED pvars
    \/ \E i \in DOMAIN Uuids, name \in Names, email \in Emails :
          HandleUpdate(Uuids[i], name, email) /\ UNCHANGED pvars
    \/ \E i \in DOMAIN Uuids : HandleRemove(Uuids[i]) /\ UNCHANGED pvars
    \/ \E k \in DOMAIN writeQueue : HandlerWrite(k) /\ UNCHANGED pvars
    \/ HandlerRestart /\ UNCHANGED pvars

HandlerSpec == Init /\ [][NextHandler]_allvars

\* ------------------------------------------------------- the posts API
\* what each entry point answers
PostAnswer(via, what) ==
    IF via = "rest"
    THEN (IF what = "created" THEN "201" ELSE IF what = "duplicate" THEN "409" ELSE "500")
    ELSE (IF what = "created" THEN "post" ELSE IF what = "duplicate" THEN "CONFLICT"
          ELSE "INTERNAL_SERVER_ERROR")

\* db.post.findUnique({ where: { name } })
FindUnique(rows, name) == \E i \in DOMAIN rows : rows[i] = name

\* db.post.create: the unique index Post_name_key refuses a second row of a name
DbCreate(rows, name) ==
    IF \E i \in DOMAIN rows : rows[i] = name
    THEN [err |-> "P2002", rows |-> rows]
    ELSE [err |-> "none", rows |-> Append(rows, name)]

\* a create request arrives: the body is parsed and findUnique is issued
PostCall(r, via, name) ==
    /\ preq[r].pc = "idle"
    /\ preq' = [preq EXCEPT ![r] = [pc |-> "finding", via |-> via, name |-> name]]
    /\ UNCHANGED posts

\* findUnique returns: a row found is answered as a duplicate, otherwise
\* db.post.create is issued
PostFound(r) ==
    /\ preq[r].pc = "finding"
    /\ preq' = [preq EXCEPT ![r] =
                    IF FindUnique(posts, preq[r].name)
                    THEN [pc |-> "done", via |-> @.via, name |-> @.name,
                          answer |-> PostAnswer(@.via, "duplicate")]
                    ELSE [@ EXCEPT !.pc = "creating"]]
    /\ UNCHANGED posts

\* db.post.create returns the row, or throws and the generic catch answers
PostCreated(r) ==
    /\ preq[r].pc = "creating"
    /\ posts' = DbCreate(posts, preq[r].name).rows
    /\ preq' = [preq EXCEPT ![r] =
                    [pc |-> "done", via |-> @.via, name |-> @.name,
                     answer |-> PostAnswer(@.via, IF DbCreate(posts, @.name).err = "none"
                                                  THEN "created" ELSE "failed")]]

NextPost ==
    \/ \E r \in PostReqs, via \in PostVias, name \in PostNames :
          PostCall(r, via, name) /\ UNCHANGED <<vars, hvars>>
    \/ \E r \in PostReqs : PostFound(r) /\ UNCHANGED <<vars, hvars>>
    \/ \E r \in PostReqs : PostCreated(r) /\ UNCHANGED <<vars, hvars>>

PostSpec == Init /\ [][NextPost]_allvars

\* ================================================================ claims
InFlight(q) == {k \in DOMAIN q : q[k].st \in {"opening", "writing"}}

Settled(p) == p.st \in {"fulfilled", "rejected"}

Drained == \A k \in DOMAIN writeQueue : Settled(writeQueue[k])

\* the records the file holds
FileUsers(f) ==
    IF f.kind = "json" THEN {ParseUser(f.text[i]) : i \in DOMAIN f.text} ELSE {}

MemUsers == {users[i] : i \in DOMAIN users}

\* C1: at no time are two persist actions (file writes) of the store in
\* progress together, whatever the overlap of the create/update/delete calls.
C1_OnePersistInFlight == Cardinality(InFlight(writeQueue)) <= 1

\* C1 witness: a write is in flight while two later persists wait behind it
C1_Witness ==
    \E k \in DOMAIN writeQueue :
        /\ writeQueue[k].st = "writing"
        /\ k + 2 \in DOMAIN writeQueue
        /\ writeQueue[k + 1].st = "pending"
        /\ writeQueue[k + 2].st = "pending"

\* C2: persist actions run in the order their mutations were applied and
\* enqueued: the calls hold queue places in call order, and once the persist
\* of a later mutation has started, the persist of every earlier one is over.
C2_PersistInEnqueueOrder ==
    /\ \A i, j \in DOMAIN calls :
          (i < j /\ calls[i].link # 0 /\ calls[j].link # 0) => calls[i].link < calls[j].link
    /\ \A i, j \in DOMAIN writeQueue :
          (i < j /\ writeQueue[j].ran) => (writeQueue[i].ran /\ Settled(writeQueue[i]))

\* C2 witness: the second persist runs after the first has finished, a third waits
C2_Witness ==
    /\ Len(writeQueue) = 3
    /\ writeQueue[1].st = "fulfilled" /\ writeQueue[1].ran
    /\ writeQueue[2].st = "opening"
    /\ writeQueue[3].st = "pending"

\* C3: the promise of enqueueWrite(action) settles with that action's own
\* outcome: it fulfils only if the action ran and its write succeeded, rejects
\* only if the action ran and its own write failed; so a call fails with a
\* write error only when its own persist failed.
C3_SettlesWithOwnOutcome ==
    /\ \A k \in DOMAIN writeQueue :
          Settled(writeQueue[k]) =>
              /\ writeQueue[k].ran
              /\ (writeQueue[k].st = "rejected" => writeQueue[k].cause = k)
    /\ \A i \in DOMAIN calls :
          calls[i].outcome = "WriteError" => writeQueue[calls[i].link].cause = calls[i].link

\* C4: no two distinct records of the in-memory collection share an email.
C4_UniqueEmail ==
    \A i, j \in DOMAIN users : i # j => users[i].email # users[j].email

\* C4 witness: two records, after a conflicting update was refused and a persist failed
C4_Witness ==
    /\ Len(users) = 2
    /\ \E i \in DOMAIN calls : calls[i].op = "update" /\ calls[i].outcome = "UserExistsError"
    /\ \E i \in DOMAIN calls : calls[i].outcome = "WriteError"

\* C5 (as claimed): whenever the write queue of an initialised store has
\* drained, the file holds exactly the records of the in-memory collection.
C5_DrainedFileEqualsMemory ==
    (phase = "ready" /\ Drained) => FileUsers(file) = MemUsers

\* C5 (amended): the same, where the persist enqueued last (if any) succeeded.
C5_DrainedAfterSuccessFileEqualsMemory ==
    (/\ phase = "ready"
     /\ Drained
     /\ writeQueue # <<>> => writeQueue[Len(writeQueue)].st = "fulfilled")
        => FileUsers(file) = MemUsers

\* C5 witness: three mutations persisted, the queue drained, two records on file
C5_Witness ==
    /\ phase = "ready"
    /\ Len(writeQueue) = 3
    /\ \A k \in DOMAIN writeQueue : writeQueue[k].st = "fulfilled"
    /\ Cardinality(MemUsers) = 2
    /\ FileUsers(file) = MemUsers

\* the step is a call of create, update or delete; NewCall is its record
IsCall == Len(calls') = Len(calls) + 1

NewCall == calls'[Len(calls')]

\* call i applied a mutation and no later call applied one to the same id
LastOn(cs, i) ==
    /\ cs[i].link # 0
    /\ \A j \in DOMAIN cs : (j > i /\ cs[j].link # 0) => cs[j].id # cs[i].id

\* reads of the collection us show the mutation of call c
VisibleIn(us, c) ==
    IF c.op = "delete"
    THEN GetById(us, c.id) = [err |-> "UserNotFoundError"]
    ELSE /\ GetById(us, c.id) = [err |-> "none", user |-> c.user[1]]
         /\ \E j \in DOMAIN GetAll(us) : GetAll(us)[j] = c.user[1]

\* C6: when the file write of a mutation's persist fails, that call rejects
\* with the write error and the in-memory collection is left as it is: the
\* mutation stays applied, nothing is rolled back.
C6_FailedWriteKeepsMutation ==
    [][\A i \in DOMAIN calls :
          LET k == calls[i].link IN
          (/\ k # 0
           /\ writeQueue[k].st \in {"opening", "writing"}
           /\ k \in DOMAIN writeQueue'
           /\ writeQueue'[k].st = "rejected")
              => /\ calls'[i].outcome = "WriteError"
                 /\ writeQueue'[k].cause = k
                 /\ users' = users
                 /\ (LastOn(calls', i) => VisibleIn(users', calls'[i]))]_vars

\* C6 witness: a create whose own write failed, its record still in memory
C6_Witness ==
    \E i \in DOMAIN calls :
        /\ calls[i].op = "create"
        /\ calls[i].outcome = "WriteError"
        /\ writeQueue[calls[i].link].ran
        /\ writeQueue[calls[i].link].cause = calls[i].link
        /\ calls[i].user[1] \in MemUsers
        /\ calls[i].user[1] \notin FileUsers(file)

\* C7: create fails with UserExistsError exactly when a record of the
\* collection has the same email; a create or update that fails with
\* UserExistsError leaves the collection, the write queue and the file as
\* they were (no persist is enqueued).
C7_ConflictChangesNothing ==
    [][IsCall =>
          /\ NewCall.op = "create" =>
                (NewCall.outcome = "UserExistsError"
                    <=> \E i \in DOMAIN users : users[i].email = NewCall.user[1].email)
          /\ NewCall.outcome = "UserExistsError" =>
                /\ NewCall.op \in {"create", "update"}
                /\ NewCall.link = 0
                /\ users' = users /\ writeQueue' = writeQueue /\ file' = file]_vars

\* C7 witness: a create refused for its email while the collection holds two
\* records and a write is in flight
C7_Witness ==
    /\ Len(users) = 2
    /\ InFlight(writeQueue) # {}
    /\ \E i \in DOMAIN calls :
          /\ calls[i].op = "create"
          /\ calls[i].outcome = "UserExistsError"
          /\ \E j \in DOMAIN users : users[j].email = calls[i].user[1].email

\* C8: update and delete on an id that is not in the collection fail with
\* UserNotFoundError and leave the collection, the write queue and the file
\* as they were; getById on such an id fails with UserNotFoundError.
C8_AbsentIdNotFound ==
    [][(IsCall /\ NewCall.op \in {"update", "delete"} /\ ~MapHas(users, NewCall.id)) =>
          /\ NewCall.outcome = "UserNotFoundError"
          /\ NewCall.link = 0
          /\ users' = users /\ writeQueue' = writeQueue /\ file' = file
          /\ GetById(users, NewCall.id) = [err |-> "UserNotFoundError"]
          /\ GetById(users', NewCall.id) = [err |-> "UserNotFoundError"]]_vars

\* C8 witness: a refused update and a refused delete on a collection that
\* holds another record
C8_Witness ==
    /\ users # <<>>
    /\ \E i \in DOMAIN calls : calls[i].op = "update" /\ calls[i].outcome = "UserNotFoundError"
    /\ \E i \in DOMAIN calls : calls[i].op = "delete" /\ calls[i].outcome = "UserNotFoundError"

\* C9: update on a present id fails with UserExistsError exactly when a
\* record with another id has the email; otherwise the record is replaced
\* under the same id, at its place, the persist is enqueued, and the call
\* returns success as soon as the promise of its persist fulfils.
C9_UpdateConflictRule ==
    [][/\ (IsCall /\ NewCall.op = "update" /\ MapHas(users, NewCall.id)) =>
             /\ NewCall.outcome = "UserExistsError"
                   <=> \E i \in DOMAIN users :
                          users[i].id # NewCall.id /\ users[i].email = NewCall.user[1].email
             /\ NewCall.outcome # "UserExistsError" =>
                   /\ NewCall.outcome \in {"pending", "ok", "WriteError"}
                   /\ NewCall.link = Len(writeQueue) + 1
                   /\ Len(writeQueue') = Len(writeQueue) + 1
                   /\ GetById(users', NewCall.id) = [err |-> "none", user |-> NewCall.user[1]]
                   /\ Len(users') = Len(users)
                   /\ \A i \in DOMAIN users :
                         users'[i] = IF users[i].id = NewCall.id THEN NewCall.user[1] ELSE users[i]
       /\ \A i \in DOMAIN calls' :
             (calls'[i].op = "update" /\ calls'[i].link # 0) =>
                 /\ writeQueue'[calls'[i].link].st = "fulfilled" <=> calls'[i].outcome = "ok"
                 /\ writeQueue'[calls'[i].link].st = "rejected" <=> calls'[i].outcome = "WriteError"]_vars

\* C9 witness: beside another record, an update that kept its record's email
\* has replaced the record and returned success
C9_Witness ==
    \E i, j \in DOMAIN calls :
        /\ i < j
        /\ calls[i].op = "create" /\ calls[j].op = "update"
        /\ calls[i].id = calls[j].id
        /\ calls[i].user[1].email = calls[j].user[1].email
        /\ calls[i].user[1].name # calls[j].user[1].name
        /\ calls[j].outcome = "ok"
        /\ Len(users) = 2
        /\ calls[j].user[1] \in MemUsers

\* C10: from the insert on, before the persist has started or finished,
\* getById and getAll return the record; no mutation waits in the write queue
\* without being visible to reads (until a later mutation of the same id).
C10_MutationVisibleAtOnce ==
    \A i \in DOMAIN calls : LastOn(calls, i) => VisibleIn(users, calls[i])

\* C10 witness: a create waits in the queue behind a write in flight, and
\* getById returns its record
C10_Witness ==
    \E i \in DOMAIN calls :
        /\ calls[i].op = "create"
        /\ calls[i].link # 0
        /\ writeQueue[calls[i].link].st = "pending"
        /\ InFlight(writeQueue) # {}
        /\ GetById(users, calls[i].id) = [err |-> "none", user |-> calls[i].user[1]]

\* C11: getAll and getById can be called and return in a single step in every
\* reachable state of the listening server, also while persists are queued or
\* in flight and after a persist has failed, and they change neither the
\* collection, the write queue nor the file.
C11_ReadsNeverBlockNorChange ==
    /\ [](phase = "ready" =>
            /\ ENABLED ReadGetAll
            /\ \A id \in Ids : ENABLED ReadGetById(id))
    /\ [][lastRead' # lastRead /\ lastRead'.op # "none" =>
            /\ users' = users /\ writeQueue' = writeQueue /\ file' = file
            /\ calls' = calls /\ phase' = phase
            /\ lastRead'.op = "getAll" => lastRead'.result = users
            /\ lastRead'.op = "getById" => lastRead'.result = GetById(users, lastRead'.id)]_vars

\* C11 witness: getById has returned a record while a write is in flight,
\* another persist waits and the file is truncated
C11_Witness ==
    /\ lastRead.op = "getById"
    /\ lastRead.result.err = "none"
    /\ \E k \in DOMAIN writeQueue : writeQueue[k].st = "writing"
    /\ \E k \in DOMAIN writeQueue : writeQueue[k].st = "pending"
    /\ file = EmptyFile

\* the ids of the records the file holds
FileIds(f) == {u.id : u \in FileUsers(f)}

\* call i returns success in this step
ReturnsOk(i) ==
    /\ i \in DOMAIN calls /\ i \in DOMAIN calls'
    /\ calls[i].outcome = "pending"
    /\ calls'[i].outcome = "ok"

\* a delete of id was applied to the index by a call of cs
DeleteApplied(cs, id) ==
    \E j \in DOMAIN cs : cs[j].op = "delete" /\ cs[j].id = id /\ cs[j].link # 0

\* the create calls of cs were made with ids of their own, as uuidv4 gives them
FreshIds(cs) ==
    \A i, j \in DOMAIN cs :
        (i # j /\ cs[i].op = "create" /\ cs[j].op = "create") => cs[i].id # cs[j].id

\* C12 (as claimed): whenever create(x) returns success, its persist has
\* finished and the file holds a record with id x.id, in every interleaving
\* of the other callers' create/update/delete (each create with a fresh id).
C12_CreateOkFileHasRecord ==
    [][\A i \in DOMAIN calls :
          (calls[i].op = "create" /\ ReturnsOk(i) /\ FreshIds(calls')) =>
              /\ writeQueue'[calls[i].link].ran
              /\ writeQueue'[calls[i].link].st = "fulfilled"
              /\ calls[i].id \in FileIds(file')]_vars

\* C12 (amended): whenever create(x) returns success, its persist has run and
\* its write has finished, and the file holds a record with id x.id unless a
\* delete of x.id was called before the create returned.
C12_CreateOkFileHasRecordUnlessDeleted ==
    [][\A i \in DOMAIN calls :
          (calls[i].op = "create" /\ ReturnsOk(i)) =>
              /\ writeQueue'[calls[i].link].ran
              /\ writeQueue'[calls[i].link].st = "fulfilled"
              /\ file'.kind = "json"
              /\ ~DeleteApplied(calls', calls[i].id) => calls[i].id \in FileIds(file')]_vars

\* C12 witness: a create that waited behind another caller's persist has
\* returned success and its record is in the file
C12_Witness ==
    \E i, j \in DOMAIN calls :
        /\ j < i
        /\ calls[j].link # 0 /\ calls[j].id # calls[i].id
        /\ calls[i].op = "create" /\ calls[i].outcome = "ok"
        /\ ~DeleteApplied(calls, calls[i].id)
        /\ calls[i].user[1] \in FileUsers(file)

\* C13: for two create calls a and b (distinct records, different emails)
\* whose persists queue up one behind the other, at the moment both have
\* returned, with no delete issued and no file write failed, the file holds
\* both a and b.
C13_BothCreatesOnFile ==
    [][\A i, j \in DOMAIN calls :
          (/\ i # j
           /\ calls[i].op = "create" /\ calls[j].op = "create"
           /\ calls[i].id # calls[j].id
           /\ calls[i].user[1].email # calls[j].user[1].email
           /\ calls[i].outcome = "ok"
           /\ ReturnsOk(j)
           /\ \A k \in DOMAIN calls' : calls'[k].op # "delete"
           /\ \A k \in DOMAIN writeQueue' : writeQueue'[k].st # "rejected")
              => {calls[i].id, calls[j].id} \subseteq FileIds(file')]_vars

\* C13 witness: both creates have returned success, a third call's persist
\* has started behind them, and the file holds both records
C13_Witness ==
    \E i, j \in DOMAIN calls :
        /\ i < j
        /\ calls[i].op = "create" /\ calls[j].op = "create"
        /\ calls[i].id # calls[j].id
        /\ calls[i].outcome = "ok" /\ calls[j].outcome = "ok"
        /\ Len(writeQueue) = 3 /\ writeQueue[3].st = "opening"
        /\ {calls[i].id, calls[j].id} \subseteq FileIds(file)

\* C14: after create(x) has returned success, and with no later update or
\* delete of x, a new JsonStore constructed on the same file and initialised
\* returns from getById(x.id) a record equal to x in every field.
C14_RoundTrip ==
    \A i \in DOMAIN calls :
        (calls[i].op = "create" /\ calls[i].outcome = "ok"
            /\ LastOn(calls, i) /\ FreshIds(calls)) =>
            /\ Load(file, <<>>).err = "none"
            /\ GetById(Load(file, <<>>).users, calls[i].id)
                   = [err |-> "none", user |-> calls[i].user[1]]

\* C15: when the file exists but cannot be read or is not a well-formed
\* serialised array (a zero-length or cut-off file included), init() fails:
\* the store never becomes ready, with an empty collection, on such a file.
C15_CorruptFileFailsInit ==
    [][(phase = "constructed" /\ phase' = "ready") => file.kind \in {"absent", "json"}]_vars

C17_ServeOnlyAfterInit ==
    /\ []((calls # <<>> \/ writeQueue # <<>> \/ lastRead # NoRead) => phase = "ready")
    /\ [][phase # "ready" =>
            /\ calls' = <<>> /\ writeQueue' = <<>> /\ lastRead' = NoRead
            /\ phase = "failed" => (phase' \in {"failed", "constructed"} /\ users' = <<>>)]_vars

\* C17 witness: init() has thrown on a cut-off file: the process has exited
\* and no call was made
C17_Witness ==
    /\ phase = "failed"
    /\ file = PartialFile
    /\ calls = <<>> /\ lastRead = NoRead /\ users = <<>>

\* C18: the rewrite of the file is atomic: at every instant the file holds a
\* whole serialised array (or does not exist yet), never an empty or partly
\* written content.
C18_FileAlwaysWhole == file.kind \in {"absent", "json"}

\* C19: a successful write replaces the file by the full collection as it was
\* when the persist started to run: the snapshot is taken at that start, it is
\* what the write in flight carries, and the finished write leaves exactly it.
C19_FileIsSnapshotAtStart ==
    [][\A k \in DOMAIN writeQueue' :
          LET was == IF k \in DOMAIN writeQueue THEN writeQueue[k] ELSE Pending
              now == writeQueue'[k]
          IN /\ (~was.ran /\ now.ran) => Parse(now.data) = GetAll(users')
             /\ (was.st \in {"opening", "writing"} /\ now.st \in {"opening", "writing"})
                    => now.data = was.data
             /\ (was.st = "writing" /\ now.st = "fulfilled")
                    => (file'.kind = "json" /\ Parse(file'.text) = Parse(was.data))]_vars

\* C19 witness: a create has returned success although its record is not in
\* the file: it was deleted between the enqueue and the start of the persist,
\* and the file is the collection as it was at that start
C19_Witness ==
    \E i \in DOMAIN calls :
        /\ calls[i].op = "create" /\ calls[i].outcome = "ok"
        /\ file.kind = "json" /\ file.text # <<>>
        /\ calls[i].id \notin FileIds(file)
        /\ Drained

\* C20: the Map holds each record under its own id: the ids of the records
\* getAll returns are pairwise distinct, and getById of each of them returns it.
C20_KeysAreIds ==
    /\ \A i, j \in DOMAIN GetAll(users) : i # j => GetAll(users)[i].id # GetAll(users)[j].id
    /\ \A i \in DOMAIN users :
          GetById(users, users[i].id) = [err |-> "none", user |-> users[i]]

\* C20 witness: two records in the Map, one of them replaced by an update
\* that changed its email
C20_Witness ==
    /\ Len(users) = 2
    /\ \E i, j \in DOMAIN calls :
          /\ i < j
          /\ calls[i].op = "create" /\ calls[j].op = "update"
          /\ calls[i].id = calls[j].id
          /\ calls[i].user[1].email # calls[j].user[1].email
          /\ calls[j].link # 0
          /\ calls[j].user[1] \in MemUsers

\* C21: once delete(id) has been called on a present id, every getById(id)
\* that follows throws UserNotFoundError, whether the persist of the delete
\* is still queued, under way, done or failed.
C21_DeletedIsNotFound ==
    \A i \in DOMAIN calls :
        (/\ calls[i].op = "delete"
         /\ LastOn(calls, i)
         /\ lastRead.op = "getById"
         /\ lastRead.id = calls[i].id)
            => lastRead.result = [err |-> "UserNotFoundError"]

\* C21 witness: getById of an id whose delete failed to persist throws
\* UserNotFoundError, and the file still holds the record
C21_Witness ==
    \E i \in DOMAIN calls :
        /\ calls[i].op = "delete"
        /\ calls[i].outcome = "WriteError"
        /\ lastRead = [op |-> "getById", id |-> calls[i].id,
                       result |-> [err |-> "UserNotFoundError"]]
        /\ calls[i].id \in FileIds(file)

\* C22: two getAll calls with no create, update or delete call between them
\* return equal sequences, whether or not persists started or ended between.
C22_RepeatedGetAllEqual ==
    lastRead.op = "getAll" => lastRead.result = lastRead.first.result

\* C22 witness: a second getAll has returned two records, and a persist
\* started or ended between the first getAll and it
C22_Witness ==
    /\ lastRead.op = "getAll"
    /\ lastRead.moved
    /\ Len(lastRead.result) = 2
    /\ FileUsers(file) # MemUsers

\* the ids the handlers can meet
HandlerIds == {Uuids[i] : i \in DOMAIN Uuids}

\* C23: while a record stays in the collection, no update request changes its
\* id or its created_at (name, email and updated_at are what can change), and
\* the file never holds another created_at for it.
C23_IdAndCreatedAtFixed ==
    /\ [][\A id \in HandlerIds :
            (MapHas(users, id) /\ MapHas(users', id)) =>
                /\ GetById(users', id).user.id = id
                /\ GetById(users', id).user.created_at = GetById(users, id).user.created_at]_vars
    /\ [](\A u \in MemUsers, v \in FileUsers(file) :
            u.id = v.id => u.created_at = v.created_at)

\* C23 witness: two overlapping updates of a record; it has another name and
\* a later updated_at than at its creation, and the created_at of its creation
C23_Witness ==
    \E i, j, k \in DOMAIN calls :
        /\ i < j /\ j < k
        /\ calls[i].op = "create" /\ calls[j].op = "update" /\ calls[k].op = "update"
        /\ calls[j].id = calls[i].id /\ calls[k].id = calls[i].id
        /\ calls[j].outcome = "pending" /\ calls[k].outcome = "pending"
        /\ GetById(users, calls[i].id) = [err |-> "none", user |-> calls[k].user[1]]
        /\ calls[k].user[1].created_at = calls[i].user[1].created_at
        /\ calls[k].user[1].updated_at # calls[i].user[1].updated_at
        /\ calls[k].user[1].name # calls[i].user[1].name
        /\ calls[k].user[1].email # calls[i].user[1].email

\* C24: after every update answered with success, the record's updated_at is
\* strictly later than the one it had before the update, and so than its
\* created_at, which is unchanged.
C24_UpdatedAtStrictlyLater ==
    \A r \in DOMAIN reqs :
        (reqs[r].op = "update" /\ reqs[r].sent = <<200>>) =>
            /\ DateParse(calls[reqs[r].call].user[1].updated_at)
                   > DateParse(reqs[r].existing[1].updated_at)
            /\ DateParse(calls[reqs[r].call].user[1].updated_at)
                   > DateParse(calls[reqs[r].call].user[1].created_at)
            /\ calls[reqs[r].call].user[1].created_at = reqs[r].existing[1].created_at

\* C25: per id a record comes into the collection by a create only, changes
\* by an update only and leaves by a delete only; an accepted create adds one
\* record under an id that was absent and leaves every other record as it was.
C25_RecordLifeCycle ==
    [][phase' = phase =>
         /\ \A id \in HandlerIds :
               /\ (~MapHas(users, id) /\ MapHas(users', id)) =>
                      (IsCall /\ NewCall.op = "create" /\ NewCall.id = id /\ NewCall.link # 0)
               /\ (MapHas(users, id) /\ ~MapHas(users', id)) =>
                      (IsCall /\ NewCall.op = "delete" /\ NewCall.id = id /\ NewCall.link # 0)
               /\ (MapHas(users, id) /\ MapHas(users', id)
                      /\ GetById(users', id) # GetById(users, id)) =>
                      (IsCall /\ NewCall.op = "update" /\ NewCall.id = id /\ NewCall.link # 0)
         /\ (IsCall /\ NewCall.op = "create" /\ NewCall.link # 0) =>
               /\ ~MapHas(users, NewCall.id)
               /\ Len(users') = Len(users) + 1
               /\ \A i \in DOMAIN users : users'[i] = users[i]
               /\ users'[Len(users')] = NewCall.user[1]]_vars

\* C25 witness: a create accepted next to a record already present, then the
\* delete of that older record
C25_Witness ==
    \E i, j, k \in DOMAIN calls :
        /\ i < j /\ j < k
        /\ calls[i].op = "create" /\ calls[j].op = "create" /\ calls[k].op = "delete"
        /\ calls[i].link # 0 /\ calls[j].link # 0 /\ calls[k].link # 0
        /\ calls[k].id = calls[i].id
        /\ users = <<calls[j].user[1]>>

\* C26: every persist action passed to enqueueWrite is executed, whatever the
\* outcome of the actions enqueued before it: no promise of the queue settles
\* without its action having been called.
C26_EveryPersistRuns ==
    \A k \in DOMAIN writeQueue :
        writeQueue[k].st \in {"fulfilled", "rejected"} => writeQueue[k].ran

\* C27: in a running process where every started file operation settles,
\* every create, update or delete call returns to its caller in the end.
C27_EveryCallReturns ==
    \A i \in 1..MaxCalls :
        (i \in DOMAIN calls /\ calls[i].outcome = "pending")
            ~> (i \in DOMAIN calls /\ calls[i].outcome # "pending")

\* C27 witness: three overlapping calls have all returned, the later two
\* after waiting behind the first one's write
C27_Witness ==
    /\ Len(calls) = 3
    /\ \A i \in DOMAIN calls : calls[i].link = i /\ calls[i].outcome \in {"ok", "WriteError"}
    /\ calls[1].outcome = "WriteError"
    /\ \A k \in DOMAIN writeQueue : Settled(writeQueue[k])

\* C28: each handler sends one response per request; a success status (201,
\* 200, 204) only when the store call with its persist has succeeded, 404 for
\* UserNotFoundError, 409 for UserExistsError, 500 for any other failure.
C28_OneResponseMapped ==
    \A r \in DOMAIN reqs :
        LET q == reqs[r]
            outcome == IF q.call = 0 THEN "UserNotFoundError" ELSE calls[q.call].outcome
        IN /\ Len(q.sent) <= 1
           /\ Len(q.sent) = 1 <=> outcome # "pending"
           /\ q.sent # <<>> =>
                 /\ q.sent[1] \in {201, 200, 204} <=> outcome = "ok"
                 /\ outcome = "ok" =>
                       /\ q.sent[1] = (IF q.op = "create" THEN 201
                                       ELSE IF q.op = "update" THEN 200 ELSE 204)
                       /\ writeQueue[calls[q.call].link].ran
                       /\ writeQueue[calls[q.call].link].st = "fulfilled"
                 /\ q.sent[1] = 404 <=> outcome = "UserNotFoundError"
                 /\ q.sent[1] = 409 <=> outcome = "UserExistsError"
                 /\ q.sent[1] = 500 <=> outcome \notin {"ok", "UserNotFoundError", "UserExistsError"}

\* C28 witness: three requests answered, one 201, one 409 and one 500
C28_Witness ==
    /\ \E r \in DOMAIN reqs : reqs[r].sent = <<201>>
    /\ \E r \in DOMAIN reqs : reqs[r].sent = <<409>>
    /\ \E r \in DOMAIN reqs : reqs[r].sent = <<500>>

\* C29: whenever no request is in flight, the value of the up-down counter
\* user_api_users_total equals the number of records in the collection.
C29_CounterIsSize ==
    (phase = "ready" /\ \A r \in DOMAIN reqs : reqs[r].sent # <<>>)
        => userCounter = Len(GetAll(users))

\* C30: of the create requests that carry one name, exactly one is answered
\* with success and every other one with the duplicate-name conflict, in
\* every interleaving of their find-by-name and their insert; no two posts
\* share a name.
C30_OneCreatedOthersConflict ==
    /\ \A i, j \in DOMAIN posts : i # j => posts[i] # posts[j]
    /\ \A r \in PostReqs :
          preq[r].pc = "done" =>
              preq[r].answer \in {PostAnswer(preq[r].via, "created"),
                                  PostAnswer(preq[r].via, "duplicate")}
    /\ \A r, q \in PostReqs :
          (/\ r # q
           /\ preq[r].pc = "done" /\ preq[q].pc = "done"
           /\ preq[r].name = preq[q].name)
              => ~(/\ preq[r].answer = PostAnswer(preq[r].via, "created")
                   /\ preq[q].answer = PostAnswer(preq[q].via, "created"))

====
